---- MODULE Spec2Model ----
(***************************************************************************)
(* Model of the pilot-stats dashboard (src/app.py): one Streamlit script   *)
(* that loads two record collections, joins them, computes the global     *)
(* statistics of the left column and the company -> user -> chat          *)
(* drill-down of the right column.  Every widget interaction reruns the   *)
(* whole script, so every action below is "set one widget, run the        *)
(* script".                                                                *)
(*                                                                         *)
(* Text is modelled as a sequence of characters (one-character strings, or *)
(* an atom standing for a run of characters that contains no delimiter),   *)
(* an instant as a number of ticks since day 0 (TicksPerDay ticks a day),  *)
(* an absent (null) scalar as Null, an optional list as a record           *)
(* [null, items].                                                          *)
(***************************************************************************)
EXTENDS Integers, Sequences, FiniteSets, TLC

\* ---------------------------------------------------------------- bounds
MaxUsers == 3
MaxConvs == 3
MaxDay == 2
TicksPerDay == 2
MaxDtcs == 2
MaxLogins == 3

\* ---------------------------------------------------------------- values
Null == "NULL"
NullList == [null |-> TRUE, items |-> <<>>]
List(s) == [null |-> FALSE, items |-> s]

Instants == 0 .. ((MaxDay + 1) * TicksPerDay - 1)

\* ------------------------------------------------------- generic helpers
Range(s) == {s[i] : i \in DOMAIN s}

RECURSIVE Flatten(_)
Flatten(ss) == IF ss = <<>> THEN <<>> ELSE Head(ss) \o Flatten(Tail(ss))

RECURSIVE SumSeq(_)
SumSeq(s) == IF s = <<>> THEN 0 ELSE Head(s) + SumSeq(Tail(s))

RECURSIVE Unique(_)
\* pandas Series.unique(): the distinct values in order of first appearance
Unique(s) ==
    IF s = <<>> THEN <<>>
    ELSE LET r == Unique(SubSeq(s, 1, Len(s) - 1))
             x == s[Len(s)]
         IN IF x \in Range(r) THEN r ELSE Append(r, x)

CountIn(s, x) == Cardinality({i \in DOMAIN s : s[i] = x})

RemoveAt(s, i) == SubSeq(s, 1, i - 1) \o SubSeq(s, i + 1, Len(s))

\* sort_values(ascending=False) with pandas' default kind ("quicksort", which
\* is not a stable sort): any arrangement of the rows whose keys (the
\* sequence k, one key per row) do not increase; the order among equal keys
\* is not determined.  Built front to back: any row with the greatest key
\* may come first.
RECURSIVE SortDescending(_, _)
SortDescending(rows, k) ==
    IF rows = <<>> THEN { <<>> }
    ELSE LET top == {i \in DOMAIN rows : \A j \in DOMAIN rows : k[j] <= k[i]}
             firsts == {i \in top : \A j \in top : rows[j] = rows[i] => i <= j}
         IN UNION { { << rows[i] >> \o t :
                        t \in SortDescending(RemoveAt(rows, i), RemoveAt(k, i)) } :
                    i \in firsts }

\* Python's sorted(key=..., reverse=True): stable, descending; elements with
\* equal keys keep their original relative order.
RECURSIVE InsertStable(_, _)
InsertStable(s, x) ==
    IF s = <<>> THEN <<x>>
    ELSE IF Head(s).timestamp >= x.timestamp
         THEN <<Head(s)>> \o InsertStable(Tail(s), x)
         ELSE <<x>> \o s

RECURSIVE SortedReverse(_)
SortedReverse(s) ==
    IF s = <<>> THEN <<>>
    ELSE InsertStable(SortedReverse(SubSeq(s, 1, Len(s) - 1)), s[Len(s)])

\* ----------------------------------------------------------------- state
VARIABLES
    user_stats_df,            \* the user collection as loaded
    raw_conversations_df,     \* the conversation collection as loaded
    pc,                       \* "start" | "rendered" | "stopped" | "failed"
    start_date_login,         \* date widget "Last login after"
    end_date_login,           \* date widget "Last login before"
    selected_company,         \* selectbox "Choose a company"
    selected_user_option,     \* selectbox "Choose a user"
    selected_chat_option,     \* selectbox "Select a chat"
    left,                     \* what the left column (global stats) shows
    right                     \* what the right column (drill-down) shows

vars == << user_stats_df, raw_conversations_df, pc, start_date_login,
           end_date_login, selected_company, selected_user_option,
           selected_chat_option, left, right >>

\* ------------------------------------------------------------ the Joiner
\* One row of the merged frame: the conversation's columns and the four
\* columns projected from the user side.
JoinRow(c, email, user_role, workshop_id, company_name) ==
    [chat_id |-> c.chat_id, user_id |-> c.user_id, title |-> c.title,
     updated_at |-> c.updated_at, open_search |-> c.open_search,
     feedback |-> c.feedback, dtcs |-> c.dtcs,
     email |-> email, user_role |-> user_role,
     workshop_id |-> workshop_id, company_name |-> company_name]

\* The rows a left merge on user_id produces for one conversation: one per
\* matching user record, in the user collection's order; a single row with
\* null user columns when no user record matches.
MergeOne(c, users) ==
    LET m == SelectSeq(users, LAMBDA u : u.user_id = c.user_id)
    IN IF m = <<>>
       THEN << JoinRow(c, Null, Null, Null, Null) >>
       ELSE [i \in 1 .. Len(m) |->
               JoinRow(c, m[i].email, m[i].user_role, m[i].workshop_id,
                       m[i].company_name)]

\* user_conversations_df.merge(user_stats_df[[...]], on="user_id", how="left")
MergeLeft(convs, users) ==
    Flatten([i \in 1 .. Len(convs) |-> MergeOne(convs[i], users)])

\* A dictionary in which the first row with an index wins.
ToDictFirst(pairs) ==
    [w \in {pairs[i][1] : i \in DOMAIN pairs} |->
        pairs[CHOOSE i \in DOMAIN pairs :
                 /\ pairs[i][1] = w
                 /\ \A j \in DOMAIN pairs : pairs[j][1] = w => i <= j][2]]

\* Series.to_dict() of a series indexed by the first component of each pair:
\* a later row with the same index replaces the earlier one.
ToDict(pairs) ==
    [w \in {pairs[i][1] : i \in DOMAIN pairs} |->
        LET last == CHOOSE i \in DOMAIN pairs :
                        /\ pairs[i][1] = w
                        /\ \A j \in DOMAIN pairs : pairs[j][1] = w => j <= i
        IN pairs[last][2]]

\* user_stats_df[["workshop_id","company_name"]].drop_duplicates()
\*     .set_index("workshop_id")["company_name"].to_dict()
WorkshopCompanyMap(users) ==
    ToDict(Unique([i \in DOMAIN users |->
                     << users[i].workshop_id, users[i].company_name >>]))

\* -------------------------------------------------- feedback statistics
FeedbackSum(row) ==
    IF ~row.feedback.null THEN SumSeq(row.feedback.items) ELSE 0

Thumb(x) == IF x > 0 THEN "up" ELSE (IF x < 0 THEN "down" ELSE "neutral")

\* len(df[(df["open_search"] == flag) & (df["thumb"] == thumb)])
CountThumb(df, flag, thumb) ==
    Cardinality({i \in DOMAIN df :
                   df[i].open_search = flag /\ Thumb(FeedbackSum(df[i])) = thumb})

\* A bucket total that counts only the conversations with a thumb (the
\* confusion of total_supported_requests with total_supported).
CountOpenSearchRated(df, flag) ==
    Cardinality({i \in DOMAIN df :
                   /\ df[i].open_search = flag
                   /\ Thumb(FeedbackSum(df[i])) # "neutral"})

\* len(df[df["open_search"] == flag])
CountOpenSearch(df, flag) ==
    Cardinality({i \in DOMAIN df : df[i].open_search = flag})

\* A Python float that is the quotient of two small integers, kept exact.
Fraction(n, d) == [num |-> n, den |-> d]

\* (count / total * 100) if total > 0 else 0
Ratio(count, total) ==
    IF total > 0 THEN Fraction(count * 100, total) ELSE Fraction(0, 1)

\* Round a non-negative fraction to the nearest integer, ties to even (what
\* the "f" format does with a value that is exactly representable).
RoundHalfEven(n, d) ==
    LET q == n \div d
        r == n % d
    IN IF 2 * r > d THEN q + 1
       ELSE IF 2 * r = d THEN q + (q % 2)
       ELSE q

\* f"{x:.1f}%": the text is "<whole>.<tenth>%".
FormatPct1(x) ==
    LET t == RoundHalfEven(x.num * 10, x.den)
    IN [whole |-> t \div 10, tenth |-> t % 10]

\* f"{x:.0f}%"
FormatPct0(x) == RoundHalfEven(x.num, x.den)

\* The matrix with each bucket's cells taken over the conversations of the
\* bucket that have a thumb, not over all conversations of the bucket.
FeedbackMatrixOverRated(df) ==
    LET supported == CountThumb(df, FALSE, "up") + CountThumb(df, FALSE, "down")
        unsupported == CountThumb(df, TRUE, "up") + CountThumb(df, TRUE, "down")
    IN [supported_up |-> FormatPct1(Ratio(CountThumb(df, FALSE, "up"), supported)),
        supported_down |-> FormatPct1(Ratio(CountThumb(df, FALSE, "down"), supported)),
        unsupported_up |-> FormatPct1(Ratio(CountThumb(df, TRUE, "up"), unsupported)),
        unsupported_down |->
            FormatPct1(Ratio(CountThumb(df, TRUE, "down"), unsupported))]

\* The 2x2 matrix of formatted percentages.
FeedbackMatrix(df) ==
    LET total_supported_requests == CountOpenSearch(df, FALSE)
        total_unsupported_requests == CountOpenSearch(df, TRUE)
    IN [supported_up |->
            FormatPct1(Ratio(CountThumb(df, FALSE, "up"), total_supported_requests)),
        supported_down |->
            FormatPct1(Ratio(CountThumb(df, FALSE, "down"), total_supported_requests)),
        unsupported_up |->
            FormatPct1(Ratio(CountThumb(df, TRUE, "up"), total_unsupported_requests)),
        unsupported_down |->
            FormatPct1(Ratio(CountThumb(df, TRUE, "down"), total_unsupported_requests))]

\* The line written also for a bucket without thumbs, as 0%.
SatisfactionLineAlways(bucket, positive, negative) ==
    IF positive + negative > 0
    THEN << [bucket |-> bucket,
             pct |-> FormatPct0(Fraction(positive * 100, positive + negative))] >>
    ELSE << [bucket |-> bucket, pct |-> 0] >>

\* The "Satisfaction rate for ... cars" line of one bucket, or no line.
SatisfactionLine(bucket, positive, negative) ==
    IF positive + negative > 0
    THEN << [bucket |-> bucket,
             pct |-> FormatPct0(Fraction(positive * 100, positive + negative))] >>
    ELSE << >>

SatisfactionLines(df) ==
    SatisfactionLine("supported", CountThumb(df, FALSE, "up"),
                     CountThumb(df, FALSE, "down"))
    \o SatisfactionLine("unsupported", CountThumb(df, TRUE, "up"),
                        CountThumb(df, TRUE, "down"))

\* ------------------------------------------------ most common error codes
\* The codes with each conversation's list reduced to its distinct codes.
AllDtcsOncePerChat(df) ==
    Flatten([i \in DOMAIN df |->
               IF df[i].dtcs.null THEN <<>> ELSE Unique(df[i].dtcs.items)])

\* [dtc for dtcs in df["dtcs"] if dtcs is not None for dtc in dtcs]
AllDtcs(df) ==
    Flatten([i \in DOMAIN df |->
               IF df[i].dtcs.null THEN <<>> ELSE df[i].dtcs.items])

\* Series.value_counts() before its sort: one row per distinct value, in
\* order of first appearance.
ValueCountRows(values) ==
    LET keys == Unique(values)
    IN [i \in DOMAIN keys |-> [code |-> keys[i], count |-> CountIn(values, keys[i])]]

\* pd.Series(all_dtcs).value_counts(): the possible tables.
DtcCounts(df) ==
    LET rows == ValueCountRows(AllDtcs(df))
    IN SortDescending(rows, [i \in DOMAIN rows |-> rows[i].count])

\* ------------------------------------------------------ most active users
NaT == -1
NoDate == -1

\* Timestamp.date() of a UTC instant
DateOf(t) == t \div TicksPerDay

\* pd.to_datetime(date, utc=True): midnight UTC of that date
ToDatetime(d) == d * TicksPerDay

MinSet(S) == CHOOSE x \in S : \A y \in S : x <= y
MaxSet(S) == CHOOSE x \in S : \A y \in S : y <= x

\* user_stats_df["last_login"].min().date() and .max().date()
MinLoginDate(users) == DateOf(MinSet({users[i].last_login : i \in DOMAIN users}))
MaxLoginDate(users) == DateOf(MaxSet({users[i].last_login : i \in DOMAIN users}))

GroupKey(r) == << r.user_id, r.email, r.user_role, r.company_name >>

\* df.groupby(["user_id","email","user_role","company_name"]).size()
\*   .reset_index(name="number of chats"): rows with a null key are left out
\* of every group.  (The groups' order before the sort that follows does not
\* change the set of arrangements that sort can produce.)
UserChatCounts(df) ==
    LET kept == SelectSeq(df, LAMBDA r : /\ r.email # Null
                                         /\ r.user_role # Null
                                         /\ r.company_name # Null)
        keys == Unique([i \in DOMAIN kept |-> GroupKey(kept[i])])
    IN [i \in DOMAIN keys |->
          [user_id |-> keys[i][1], email |-> keys[i][2],
           user_role |-> keys[i][3], company_name |-> keys[i][4],
           number_of_chats |->
               Cardinality({j \in DOMAIN kept : GroupKey(kept[j]) = keys[i]})]]

WithLogin(r, last_login) ==
    [user_id |-> r.user_id, email |-> r.email, user_role |-> r.user_role,
     company_name |-> r.company_name, number_of_chats |-> r.number_of_chats,
     last_login |-> last_login]

\* pd.merge(counts, user_stats_df[["user_id","last_login"]], on="user_id",
\*          how="left")
UserChatCountsWithLogin(counts, users) ==
    Flatten([i \in DOMAIN counts |->
        LET m == SelectSeq(users, LAMBDA u : u.user_id = counts[i].user_id)
        IN IF m = <<>>
           THEN << WithLogin(counts[i], NaT) >>
           ELSE [j \in 1 .. Len(m) |-> WithLogin(counts[i], m[j].last_login)]])

\* The filter without the day added to the end of the range.
InLoginRangeEndExcluded(last_login, start_date, end_date) ==
    /\ last_login # NaT
    /\ last_login >= ToDatetime(start_date)
    /\ last_login < ToDatetime(end_date)

\* (last_login >= start_datetime_login) & (last_login < end_datetime_login),
\* end_datetime_login being midnight of end_date_login plus one day
InLoginRange(last_login, start_date, end_date) ==
    /\ last_login # NaT
    /\ last_login >= ToDatetime(start_date)
    /\ last_login < ToDatetime(end_date) + TicksPerDay

ChatCountKeys(rows) == [i \in DOMAIN rows |-> rows[i].number_of_chats]

\* The block with an invalid range silently swapped instead of reported.
MostActiveUsersSwapped(df, users, start_date, end_date) ==
    LET lo == IF start_date > end_date THEN end_date ELSE start_date
        hi == IF start_date > end_date THEN start_date ELSE end_date
        with_login == UserChatCountsWithLogin(UserChatCounts(df), users)
        shown == SelectSeq(with_login, LAMBDA r : InLoginRange(r.last_login, lo, hi))
    IN { [range_error |-> FALSE, user_chat_counts_display |-> t] :
           t \in SortDescending(shown, ChatCountKeys(shown)) }

\* The "Most Active Users" block: whether st.error was called, and the
\* possible tables.
MostActiveUsers(df, users, start_date, end_date) ==
    IF start_date > end_date
    THEN { [range_error |-> TRUE, user_chat_counts_display |-> t] :
             t \in SortDescending(UserChatCounts(df),
                                  ChatCountKeys(UserChatCounts(df))) }
    ELSE LET with_login == UserChatCountsWithLogin(UserChatCounts(df), users)
             shown == SelectSeq(with_login,
                        LAMBDA r : InLoginRange(r.last_login, start_date, end_date))
         IN { [range_error |-> FALSE, user_chat_counts_display |-> t] :
                t \in SortDescending(shown, ChatCountKeys(shown)) }

\* ------------------------------------------------------ workshop statistics
\* The group keys with null keys kept (groupby(..., dropna=False)).
WorkshopGroupsKeepNull(df) == Unique([i \in DOMAIN df |-> df[i].workshop_id])

\* groupby("workshop_id"): one group per distinct key; rows whose key is null
\* belong to no group (dropna=True is the default).
WorkshopGroups(df) ==
    Unique([i \in DOMAIN SelectSeq(df, LAMBDA r : r.workshop_id # Null) |->
              SelectSeq(df, LAMBDA r : r.workshop_id # Null)[i].workshop_id])

\* The "first" aggregation: the first value of the group that is not null.
FirstCompany(group) ==
    LET named == SelectSeq(group, LAMBDA r : r.company_name # Null)
    IN IF named = <<>> THEN Null ELSE named[1].company_name

\* .agg(...).reset_index(): one row per group (avg_cost is not modelled, the
\* records carry no tot_cost).
WorkshopStatsRows(df) ==
    LET keys == WorkshopGroups(df)
    IN [k \in DOMAIN keys |->
          LET group == SelectSeq(df, LAMBDA r : r.workshop_id = keys[k])
          IN [workshop_id |-> keys[k],
              company |-> FirstCompany(group),
              num_chats |-> Len(group),
              num_users |-> Cardinality({group[i].user_id : i \in DOMAIN group})]]

\* workshop_stats.sort_values(by="num_chats", ascending=False)
WorkshopStats(df) ==
    SortDescending(WorkshopStatsRows(df),
                   [i \in DOMAIN WorkshopStatsRows(df) |->
                      WorkshopStatsRows(df)[i].num_chats])

\* --------------------------------------------------------- the left column
LeftColumn(users, convs, start_date, end_date) ==
    LET df == MergeLeft(convs, users)
    IN { [user_conversations_df |-> df,
          workshop_company_map |-> WorkshopCompanyMap(users),
          total_users |-> Cardinality({users[i].user_id : i \in DOMAIN users}),
          total_chats |-> Len(df),
          workshop_stats |-> w,
          verified_answers |-> CountOpenSearch(df, FALSE),
          total_supported_requests |-> CountOpenSearch(df, FALSE),
          total_unsupported_requests |-> CountOpenSearch(df, TRUE),
          feedback_matrix |-> FeedbackMatrix(df),
          satisfaction |-> SatisfactionLines(df),
          dtc_counts |-> d,
          range_error |-> m.range_error,
          user_chat_counts_display |-> m.user_chat_counts_display] :
          w \in WorkshopStats(df),
          d \in DtcCounts(df),
          m \in MostActiveUsers(df, users, start_date, end_date) }

\* ------------------------------------------------- labels of the selectboxes
\* str.split(sep): the pieces between the non-overlapping occurrences of sep,
\* found left to right; the whole text when sep does not occur.
RECURSIVE Split(_, _)
Split(s, sep) ==
    LET hits == {i \in 1 .. Len(s) :
                   /\ i + Len(sep) - 1 <= Len(s)
                   /\ SubSeq(s, i, i + Len(sep) - 1) = sep}
    IN IF hits = {} THEN << s >>
       ELSE LET i == MinSet(hits)
            IN << SubSeq(s, 1, i - 1) >>
               \o Split(SubSeq(s, i + Len(sep), Len(s)), sep)

UserSep == << " ", "(" >>
ChatSep == << " ", "(", "I", "D", ":", " " >>

\* f"{row['user_id']} ({row['user_role']})"
UserOption(row) == row.user_id \o UserSep \o << row.user_role, ")" >>

\* selected_user_option.split(" (")[0]
ExtractUserId(option) == Split(option, UserSep)[1]

\* row['updated_at'].strftime('%Y-%m-%d %H:%M'): a text without "("
FormatMinute(t) == ToString(t)

\* f"{updated_at:%Y-%m-%d %H:%M} - {row['title']} (ID: {row['chat_id']})"
ChatOption(row) ==
    << FormatMinute(row.updated_at), " ", "-", " " >> \o row.title
    \o ChatSep \o row.chat_id \o << ")" >>

\* selected_chat_option.split(" (ID: ")[1][:-1]
ExtractChatId(option) ==
    LET piece == Split(option, ChatSep)[2]
    IN SubSeq(piece, 1, Len(piece) - 1)

\* ------------------------------------------------------------ login history
\* The loop ended (break) by the first entry that does not parse.
RECURSIVE FormattedLoginsUntilFailure(_)
FormattedLoginsUntilFailure(history) ==
    IF history = <<>> \/ ~Head(history).ok THEN <<>>
    ELSE << [date |-> DateOf(Head(history).at),
             time |-> Head(history).at % TicksPerDay,
             timestamp |-> Head(history).at] >>
         \o FormattedLoginsUntilFailure(Tail(history))

\* pd.to_datetime(timestamp, utc=True) followed by strftime: an entry is a
\* record [ok, at]; one that does not parse (ok = FALSE) raises, and the
\* bare except skips it.
FormattedLogins(history) ==
    Flatten([i \in DOMAIN history |->
        IF history[i].ok
        THEN << [date |-> DateOf(history[i].at),
                 time |-> history[i].at % TicksPerDay,
                 timestamp |-> history[i].at] >>
        ELSE << >>])

NoLoginHistory ==
    [message |-> "No login history available.", login_df |-> <<>>,
     first_login |-> NoDate, last_login |-> NoDate, total_logins |-> 0]

\* The "Login History" block of the selected user.
LoginHistoryView(user) ==
    IF ~user.login_history.null /\ user.login_history.items # <<>>
    THEN LET formatted_logins ==
                 SortedReverse(FormattedLogins(user.login_history.items))
         IN IF formatted_logins # <<>>
            THEN [message |-> "table",
                  login_df |-> [i \in DOMAIN formatted_logins |->
                                  [date |-> formatted_logins[i].date,
                                   time |-> formatted_logins[i].time]],
                  first_login |-> formatted_logins[Len(formatted_logins)].date,
                  last_login |-> formatted_logins[1].date,
                  total_logins |-> Len(formatted_logins)]
            ELSE NoLoginHistory
    ELSE NoLoginHistory

\* ------------------------------------------------------- the right column
NoOption == << >>

\* st.selectbox: the value kept from the last run when the widget is the
\* same widget (same options) and the value is one of them, else the first
\* option; None (NoOption) when there are no options.
Selectbox(options, value, old_options) ==
    IF options = <<>> THEN NoOption
    ELSE IF options = old_options /\ value \in Range(options) THEN value
    ELSE options[1]

\* if selected_company: (None and "" are falsy)
Truthy(x) == x # Null /\ x # ""

NothingShown ==
    [companies |-> <<>>, company_users_options |-> <<>>,
     selected_user_id |-> <<>>, selected_user_stats |-> <<>>,
     login |-> <<>>, user_conversations |-> <<>>, chat_options |-> <<>>,
     selected_chat_id |-> <<>>, selected_chat |-> <<>>,
     no_chats |-> FALSE, error |-> "none",
     company |-> Null, user_option |-> NoOption, chat_option |-> NoOption]

\* The chat part with the user's conversations looked up by email instead of
\* by user_id.
ChatPartByEmail(base, df, chat_value, old_chat_options) ==
    LET mine == SelectSeq(df, LAMBDA r : r.email = base.selected_user_stats[1].email)
    IN IF Len(mine) > 0
       THEN { LET chat_options == [i \in DOMAIN sorted |-> ChatOption(sorted[i])]
                  option == Selectbox(chat_options, chat_value, old_chat_options)
                  selected_chat_id == ExtractChatId(option)
                  found == SelectSeq(sorted, LAMBDA r : r.chat_id = selected_chat_id)
              IN [base EXCEPT
                    !.user_conversations = sorted,
                    !.chat_options = chat_options,
                    !.chat_option = option,
                    !.selected_chat_id = selected_chat_id,
                    !.selected_chat = IF found = <<>> THEN <<>> ELSE << found[1] >>,
                    !.error = IF found = <<>> THEN "IndexError" ELSE "none"] :
              sorted \in SortDescending(mine,
                            [i \in DOMAIN mine |-> mine[i].updated_at]) }
       ELSE { [base EXCEPT !.no_chats = TRUE] }

\* The chat part, below the login history: the user's conversations, the
\* chat selectbox and the selected chat.
ChatPart(base, df, chat_value, old_chat_options) ==
    LET mine == SelectSeq(df, LAMBDA r : r.user_id = base.selected_user_id)
    IN IF Len(mine) > 0
       THEN { LET chat_options == [i \in DOMAIN sorted |-> ChatOption(sorted[i])]
                  option == Selectbox(chat_options, chat_value, old_chat_options)
                  selected_chat_id == ExtractChatId(option)
                  found == SelectSeq(sorted, LAMBDA r : r.chat_id = selected_chat_id)
              IN [base EXCEPT
                    !.user_conversations = sorted,
                    !.chat_options = chat_options,
                    !.chat_option = option,
                    !.selected_chat_id = selected_chat_id,
                    \* .iloc[0] raises IndexError on an empty selection
                    !.selected_chat = IF found = <<>> THEN <<>> ELSE << found[1] >>,
                    !.error = IF found = <<>> THEN "IndexError" ELSE "none"] :
              sorted \in SortDescending(mine,
                            [i \in DOMAIN mine |-> mine[i].updated_at]) }
       ELSE { [base EXCEPT !.no_chats = TRUE] }

\* The whole right column; old is what the last run showed.
RightColumn(users, df, company_value, user_value, chat_value, old) ==
    LET companies == Unique([i \in DOMAIN users |-> users[i].company_name])
        company == IF company_value \in Range(companies)
                   THEN company_value ELSE companies[1]
        shown == [NothingShown EXCEPT !.companies = companies, !.company = company]
    IN IF ~Truthy(company) THEN { shown }
       ELSE
       LET company_users == SelectSeq(users, LAMBDA u : u.company_name = company)
           company_users_options ==
               [i \in DOMAIN company_users |-> UserOption(company_users[i])]
           option == Selectbox(company_users_options, user_value,
                               old.company_users_options)
           selected_user_id == ExtractUserId(option)
           found == SelectSeq(company_users,
                              LAMBDA u : u.user_id = selected_user_id)
           upto_user == [shown EXCEPT
                           !.company_users_options = company_users_options,
                           !.user_option = option,
                           !.selected_user_id = selected_user_id]
       IN IF found = <<>>
          \* .iloc[0] raises IndexError on an empty selection: the run ends here
          THEN { [upto_user EXCEPT !.error = "IndexError"] }
          ELSE ChatPart([upto_user EXCEPT
                           !.selected_user_stats = << found[1] >>,
                           !.login = << LoginHistoryView(found[1]) >>],
                        df, chat_value, old.chat_options)

\* ------------------------------------------------------------ the script
EmptyLeft ==
    [user_conversations_df |-> <<>>, workshop_company_map |-> <<>>,
     total_users |-> 0, total_chats |-> 0, workshop_stats |-> <<>>,
     verified_answers |-> 0,
     total_supported_requests |-> 0, total_unsupported_requests |-> 0,
     feedback_matrix |-> <<>>, satisfaction |-> <<>>, dtc_counts |-> <<>>,
     range_error |-> FALSE, user_chat_counts_display |-> <<>>]

\* One execution of the script with the widgets holding the given values
\* (NoDate / Null / NoOption: the widget has no value yet).
Script(start_value, end_value, company_value, user_value, chat_value) ==
    /\ UNCHANGED << user_stats_df, raw_conversations_df >>
    /\ IF user_stats_df = <<>> \/ raw_conversations_df = <<>>
       THEN \* st.warning("No data available. ..."); st.stop()
            /\ pc' = "stopped"
            /\ left' = EmptyLeft
            /\ right' = NothingShown
            /\ start_date_login' = NoDate
            /\ end_date_login' = NoDate
            /\ selected_company' = Null
            /\ selected_user_option' = NoOption
            /\ selected_chat_option' = NoOption
       ELSE LET start_date == IF start_value = NoDate
                              THEN MinLoginDate(user_stats_df) ELSE start_value
                end_date == IF end_value = NoDate
                            THEN MaxLoginDate(user_stats_df) ELSE end_value
            IN \E l \in LeftColumn(user_stats_df, raw_conversations_df,
                                   start_date, end_date) :
               \E r \in RightColumn(user_stats_df, l.user_conversations_df,
                                    company_value, user_value, chat_value, right) :
                  /\ left' = l
                  /\ right' = r
                  /\ start_date_login' = start_date
                  /\ end_date_login' = end_date
                  /\ selected_company' = r.company
                  /\ selected_user_option' = r.user_option
                  /\ selected_chat_option' = r.chat_option
                  /\ pc' = IF r.error = "none" THEN "rendered" ELSE "failed"

\* The widgets of a page are live once the script has run, also when the run
\* ended in an exception below them.
Live == pc \in {"rendered", "failed"}

\* The first run of a session.
Run ==
    /\ pc = "start"
    /\ Script(NoDate, NoDate, Null, NoOption, NoOption)

\* The user picks a date in "Last login after" (within min_value..max_value).
ChangeStartDate ==
    /\ Live
    /\ \E d \in MinLoginDate(user_stats_df) .. MaxLoginDate(user_stats_df) :
          Script(d, end_date_login, selected_company, selected_user_option,
                 selected_chat_option)

\* The user picks a date in "Last login before".
ChangeEndDate ==
    /\ Live
    /\ \E d \in MinLoginDate(user_stats_df) .. MaxLoginDate(user_stats_df) :
          Script(start_date_login, d, selected_company, selected_user_option,
                 selected_chat_option)

SelectCompany ==
    /\ Live
    /\ \E c \in Range(right.companies) :
          Script(start_date_login, end_date_login, c, selected_user_option,
                 selected_chat_option)

SelectUser ==
    /\ Live
    /\ \E o \in Range(right.company_users_options) :
          Script(start_date_login, end_date_login, selected_company, o,
                 selected_chat_option)

SelectChat ==
    /\ Live
    /\ \E o \in Range(right.chat_options) :
          Script(start_date_login, end_date_login, selected_company,
                 selected_user_option, o)

Next ==
    \/ Run
    \/ ChangeStartDate
    \/ ChangeEndDate
    \/ SelectCompany
    \/ SelectUser
    \/ SelectChat

\* ------------------------------------------------------- the loaded data
SeqsUpTo(S, n) == UNION {[1 .. k -> S] : k \in 0 .. n}

U == << "u" >>
V == << "v" >>
X == << "x" >>

UserRecord(user_id, workshop_id, company_name, last_login, login_history) ==
    [user_id |-> user_id, email |-> "e", user_role |-> "mechanic",
     workshop_id |-> workshop_id, company_name |-> company_name,
     last_login |-> last_login, login_history |-> login_history]

ConversationRecord(chat_id, user_id, title, updated_at, open_search, feedback, dtcs) ==
    [chat_id |-> chat_id, user_id |-> user_id, title |-> title,
     updated_at |-> updated_at, open_search |-> open_search,
     feedback |-> feedback, dtcs |-> dtcs]

\* The state of a session before its first run, with the given collections.
Loaded(users, convs) ==
    /\ user_stats_df = users
    /\ raw_conversations_df = convs
    /\ pc = "start"
    /\ start_date_login = NoDate
    /\ end_date_login = NoDate
    /\ selected_company = Null
    /\ selected_user_option = NoOption
    /\ selected_chat_option = NoOption
    /\ left = EmptyLeft
    /\ right = NothingShown

\* Conversation k of a loaded collection gets chat_id "c<k>" and is updated at
\* instant k, unless the collection varies these itself.
ChatIdAt(k) == << "c", ToString(k) >>

PlainConversation(k, user_id) ==
    ConversationRecord(ChatIdAt(k), user_id, << "t" >>, k, FALSE, NullList, NullList)

PlainUser(user_id) == UserRecord(user_id, "w1", "A", 0, NullList)

\* Collections that exercise the join: user records that may share a
\* user_id, conversations of known and of unknown users.
JoinUsers == { PlainUser(id) : id \in {U, V} }

JoinConversations ==
    UNION { { [i \in 1 .. k |-> PlainConversation(i, f[i])] :
                f \in [1 .. k -> {U, V, X}] } : k \in 0 .. MaxConvs }

InitJoin ==
    \E users \in SeqsUpTo(JoinUsers, MaxUsers) :
    \E convs \in JoinConversations :
        Loaded(users, convs)

SpecJoin == InitJoin /\ [][Next]_vars

\* Collections that exercise the workshop map: user records (of distinct
\* users) that may share a workshop_id and disagree on its company.
UserIdAt(k) == << "u", ToString(k) >>

WorkshopUsers ==
    UNION { { [i \in 1 .. k |->
                 UserRecord(UserIdAt(i), f[i][1], f[i][2], 0, NullList)] :
                f \in [1 .. k -> {"w1", "w2"} \X {"A", "B"}] } :
            k \in 0 .. MaxUsers }

InitWorkshop ==
    \E users \in WorkshopUsers :
    \E convs \in { << PlainConversation(1, UserIdAt(1)) >>,
                   << PlainConversation(1, UserIdAt(2)),
                      PlainConversation(2, UserIdAt(1)) >> } :
        Loaded(users, convs)

SpecWorkshop == InitWorkshop /\ [][Next]_vars

\* Collections that exercise the feedback statistics: conversations of one
\* user with every verification flag and feedback list.
FeedbackLists ==
    { NullList, List(<< >>), List(<< 1 >>), List(<< -1 >>), List(<< 1, -1 >>) }

FeedbackConversations ==
    UNION { { [i \in 1 .. k |->
                 ConversationRecord(ChatIdAt(i), U, << "t" >>, i, f[i][1],
                                    f[i][2], NullList)] :
                f \in [1 .. k -> BOOLEAN \X FeedbackLists] } :
            k \in 0 .. MaxConvs }

InitFeedback ==
    \E convs \in FeedbackConversations : Loaded(<< PlainUser(U) >>, convs)

SpecFeedback == InitFeedback /\ [][Next]_vars

\* Collections that exercise the error-code table: two conversations of one
\* user, each with no DTC list or with a list of up to MaxDtcs codes.
DtcLists ==
    {NullList} \cup { List(l) : l \in SeqsUpTo({"P0101", "P0200", "P0300"}, MaxDtcs) }

InitDtc ==
    \E d1 \in DtcLists : \E d2 \in DtcLists :
        Loaded(<< PlainUser(U) >>,
               << ConversationRecord(ChatIdAt(1), U, << "t" >>, 1, FALSE, NullList, d1),
                  ConversationRecord(ChatIdAt(2), U, << "t" >>, 2, FALSE, NullList, d2) >>)

SpecDtc == InitDtc /\ [][Next]_vars

\* Collections that exercise the last-login filter: one or two users with
\* every last_login instant, and conversations that give them different
\* numbers of chats.
ActiveUsers ==
    { << UserRecord(U, "w1", "A", t, NullList) >> : t \in Instants }
    \cup { << UserRecord(U, "w1", "A", t1, NullList),
              UserRecord(V, "w1", "A", t2, NullList) >> :
             t1 \in Instants, t2 \in Instants }

ActiveConversations ==
    { [i \in DOMAIN f |-> PlainConversation(i, f[i])] :
        f \in { << U >>, << U, V >>, << V, U, U >>, << X, V >> } }

InitActive ==
    \E users \in ActiveUsers : \E convs \in ActiveConversations :
        Loaded(users, convs)

SpecActive == InitActive /\ [][Next]_vars

\* Collections that exercise the login history: one user with every history
\* of up to MaxLogins entries, some of which do not parse.
LoginEntries ==
    { [ok |-> TRUE, at |-> 0], [ok |-> TRUE, at |-> TicksPerDay + 1],
      [ok |-> TRUE, at |-> 2 * TicksPerDay], [ok |-> FALSE, at |-> 0] }

LoginHistories ==
    {NullList} \cup { List(l) : l \in SeqsUpTo(LoginEntries, MaxLogins) }

InitLogin ==
    \E h \in LoginHistories :
    \E convs \in { << PlainConversation(1, U) >>,
                   << PlainConversation(1, U), PlainConversation(2, U) >>,
                   << PlainConversation(1, V) >> } :
        Loaded(<< UserRecord(U, "w1", "A", 0, h) >>, convs)

SpecLogin == InitLogin /\ [][Next]_vars

\* Collections that exercise the drill-down: users (with distinct ids) and
\* conversations whose ids and titles may contain the text the labels are
\* split at; the second conversation is updated before, with or after the
\* first.
UX == << "u", " ", "(", "x" >>
TitleWithId == << "t", " ", "(", "I", "D", ":", " ", "c", "1", ")" >>
TitleWithSep == << "t", " ", "(", "I", "D", ":", " ", "z" >>

DrillUsers ==
    { << UserRecord(id, "w1", "A", 0, NullList) >> : id \in {U, V, UX} }
    \cup { << UserRecord(p[1], "w1", "A", 0, NullList),
              UserRecord(p[2], "w1", c, 0, NullList) >> :
             p \in {q \in {U, V, UX} \X {U, V, UX} : q[1] # q[2]},
             c \in {"A", "B"} }

DrillConversations ==
    { << ConversationRecord(ChatIdAt(1), id, t, 1, FALSE, NullList, NullList) >> :
        id \in {U, V}, t \in {<< "t" >>, TitleWithSep} }
    \cup { << ConversationRecord(ChatIdAt(1), id1, t1, 1, FALSE, NullList, NullList),
              ConversationRecord(ChatIdAt(2), id2, t2, at, FALSE, NullList, NullList) >> :
             id1 \in {U, V}, t1 \in {<< "t" >>, TitleWithSep},
             id2 \in {U, V}, t2 \in {<< "t" >>, TitleWithId}, at \in 0 .. 2 }

InitDrill ==
    \E users \in DrillUsers : \E convs \in DrillConversations :
        Loaded(users, convs)

SpecDrill == InitDrill /\ [][Next]_vars

\* Collections that exercise the workshop statistics: one or two user
\* records, each in a workshop or with a null workshop_id, and conversations
\* of these users and of a user with no record.
BreakdownUsers ==
    { << UserRecord(UserIdAt(1), w, "A", 0, NullList) >> : w \in {"w1", "w2", Null} }
    \cup { << UserRecord(UserIdAt(1), w[1], "A", 0, NullList),
              UserRecord(UserIdAt(2), w[2], "B", 0, NullList) >> :
            w \in {"w1", "w2", Null} \X {"w1", "w2", Null} }

BreakdownConversations ==
    { [i \in DOMAIN f |-> PlainConversation(i, UserIdAt(f[i]))] :
        f \in SeqsUpTo(1 .. 3, MaxConvs + 1) \ { <<>> } }

InitBreakdown ==
    \E users \in BreakdownUsers :
    \E convs \in BreakdownConversations :
        Loaded(users, convs)

SpecBreakdown == InitBreakdown /\ [][Next]_vars

\* Every collection above.
Init ==
    \/ InitJoin
    \/ InitWorkshop
    \/ InitFeedback
    \/ InitDtc
    \/ InitActive
    \/ InitLogin
    \/ InitDrill
    \/ InitBreakdown

Spec == Init /\ [][Next]_vars

\* ================================================================ claims
Joined == left.user_conversations_df

HasUser(user_id) == \E i \in DOMAIN user_stats_df : user_stats_df[i].user_id = user_id

\* C1: the joined collection has exactly as many rows as the conversation
\* collection, in the same order, and a conversation whose user_id matches
\* no user record is kept with null email, role, workshop_id and company_name.
C1_TrueLeftJoin ==
    Live =>
        /\ Len(Joined) = Len(raw_conversations_df)
        /\ \A i \in DOMAIN raw_conversations_df :
              /\ Joined[i].chat_id = raw_conversations_df[i].chat_id
              /\ Joined[i].user_id = raw_conversations_df[i].user_id
              /\ ~HasUser(raw_conversations_df[i].user_id) =>
                    /\ Joined[i].email = Null
                    /\ Joined[i].user_role = Null
                    /\ Joined[i].workshop_id = Null
                    /\ Joined[i].company_name = Null

\* C2: for a non-empty conversation collection, the number of conversations
\* counted as verified (open_search false) plus the number counted as
\* unsupported (open_search true) equals the total conversation count.
C2_BucketsPartition ==
    Live =>
        /\ left.total_chats = Len(Joined)
        /\ left.verified_answers + left.total_unsupported_requests = left.total_chats
        /\ left.total_supported_requests + left.total_unsupported_requests
              = left.total_chats

C2_Witness ==
    /\ Live
    /\ left.verified_answers > 0
    /\ left.total_unsupported_requests > 0
    /\ left.total_chats >= 3

WorkshopIds == {user_stats_df[i].workshop_id : i \in DOMAIN user_stats_df}

RecordsOf(w) == {i \in DOMAIN user_stats_df : user_stats_df[i].workshop_id = w}

\* C3 as stated: the map has exactly one entry per distinct workshop_id of the
\* user collection, and each value is the company name of the first user
\* record that carries that workshop_id.
C3_FirstCompanyWins ==
    Live =>
        /\ DOMAIN left.workshop_company_map = WorkshopIds
        /\ \A w \in WorkshopIds :
              left.workshop_company_map[w]
                 = user_stats_df[MinSet(RecordsOf(w))].company_name

\* The record at which company c is first seen for workshop w.
FirstSeen(w, c) ==
    MinSet({i \in RecordsOf(w) : user_stats_df[i].company_name = c})

\* C3 as amended: the map has exactly one entry per distinct workshop_id of
\* the user collection, and each value is, of the company names that
\* workshop's records carry, the one that is first seen latest in the
\* collection (the only one, when the records agree).
C3_LastNewCompanyWins ==
    Live =>
        /\ DOMAIN left.workshop_company_map = WorkshopIds
        /\ \A w \in WorkshopIds :
              \A i \in RecordsOf(w) :
                 FirstSeen(w, user_stats_df[i].company_name)
                    <= FirstSeen(w, left.workshop_company_map[w])

\* A workshop whose records name one company, then another, then the first
\* again.
C3_Witness ==
    /\ Live
    /\ \E w \in WorkshopIds :
          \E i, j, k \in RecordsOf(w) :
             /\ i < j /\ j < k
             /\ user_stats_df[i].company_name # user_stats_df[j].company_name
             /\ user_stats_df[k].company_name = user_stats_df[i].company_name

ValidRange == start_date_login <= end_date_login

\* The per-user rows of the table before the filter, each with the
\* last_login of its user.
RowsWithLogin ==
    UserChatCountsWithLogin(UserChatCounts(Joined), user_stats_df)

Shown == left.user_chat_counts_display

\* C4: with a valid range, a user row is shown if and only if
\* start_date <= the calendar date of its last_login <= end_date, both ends
\* inclusive (with start = end: exactly the rows of that single day).
C4_InclusiveDateFilter ==
    (Live /\ ValidRange) =>
        /\ \A i \in DOMAIN RowsWithLogin :
              LET r == RowsWithLogin[i]
              IN CountIn(Shown, r) =
                    IF /\ start_date_login <= DateOf(r.last_login)
                       /\ DateOf(r.last_login) <= end_date_login
                    THEN CountIn(RowsWithLogin, r) ELSE 0
        /\ Range(Shown) \subseteq Range(RowsWithLogin)

\* A single-day range that keeps a row of the last instant of that day and
\* drops a row of the first instant of the next day.
C4_Witness ==
    /\ Live
    /\ start_date_login = end_date_login
    /\ \E i \in DOMAIN Shown :
          Shown[i].last_login = ToDatetime(end_date_login) + TicksPerDay - 1
    /\ \E i \in DOMAIN RowsWithLogin :
          RowsWithLogin[i].last_login = ToDatetime(end_date_login) + TicksPerDay

\* C5: with an invalid range (start > end) an input error is reported and the
\* table is the unfiltered base table: every per-user row of the grouped
\* counts regardless of last_login, sorted by descending number of chats;
\* the range is not corrected or swapped.
C5_InvalidRangeFallback ==
    Live =>
        /\ left.range_error <=> ~ValidRange
        /\ ~ValidRange =>
              /\ Len(Shown) = Len(UserChatCounts(Joined))
              /\ \A i \in DOMAIN UserChatCounts(Joined) :
                    CountIn(Shown, UserChatCounts(Joined)[i]) = 1
              /\ \A i, j \in DOMAIN Shown :
                    i < j => Shown[i].number_of_chats >= Shown[j].number_of_chats

\* An invalid range with two rows of different counts, one of them of a user
\* whose last_login lies on neither day of the range.
C5_Witness ==
    /\ Live
    /\ ~ValidRange
    /\ Len(Shown) = 2
    /\ Shown[1].number_of_chats > Shown[2].number_of_chats
    /\ \E i \in DOMAIN RowsWithLogin :
          /\ DateOf(RowsWithLogin[i].last_login) # start_date_login
          /\ DateOf(RowsWithLogin[i].last_login) # end_date_login

InBucket(flag) == {i \in DOMAIN Joined : Joined[i].open_search = flag}

WithThumb(flag, thumb) ==
    {i \in InBucket(flag) : Thumb(FeedbackSum(Joined[i])) = thumb}

Tenths(cell) == cell.whole * 10 + cell.tenth

\* The cell shows, to one decimal place, n / total * 100 (0.0 when the
\* bucket is empty).
CellShows(cell, n, total) ==
    /\ cell.tenth \in 0 .. 9
    /\ IF total = 0 THEN Tenths(cell) = 0
       ELSE LET d == Tenths(cell) * total - n * 1000
            IN 2 * d <= total /\ -2 * d <= total

\* C6: each cell of the satisfaction matrix is (conversations of that bucket
\* with that thumb) / (conversations of that bucket) * 100, and both cells of
\* an empty bucket read "0.0%".
C6_MatrixCells ==
    Live =>
        /\ CellShows(left.feedback_matrix.supported_up,
                     Cardinality(WithThumb(FALSE, "up")), Cardinality(InBucket(FALSE)))
        /\ CellShows(left.feedback_matrix.supported_down,
                     Cardinality(WithThumb(FALSE, "down")), Cardinality(InBucket(FALSE)))
        /\ CellShows(left.feedback_matrix.unsupported_up,
                     Cardinality(WithThumb(TRUE, "up")), Cardinality(InBucket(TRUE)))
        /\ CellShows(left.feedback_matrix.unsupported_down,
                     Cardinality(WithThumb(TRUE, "down")), Cardinality(InBucket(TRUE)))

\* One bucket is empty; the other holds three conversations: one up, one
\* down, one neutral (33.3% and 33.3%).
C6_Witness ==
    /\ Live
    /\ InBucket(TRUE) = {}
    /\ left.feedback_matrix.unsupported_up = [whole |-> 0, tenth |-> 0]
    /\ left.feedback_matrix.supported_up = [whole |-> 33, tenth |-> 3]
    /\ left.feedback_matrix.supported_down = [whole |-> 33, tenth |-> 3]

LinesOf(bucket) ==
    {i \in DOMAIN left.satisfaction : left.satisfaction[i].bucket = bucket}

\* The bucket's rate line is there exactly when positive + negative > 0, and
\* then shows positive / (positive + negative) * 100 to the nearest percent.
RateReported(bucket, positive, negative) ==
    /\ Cardinality(LinesOf(bucket)) = (IF positive + negative > 0 THEN 1 ELSE 0)
    /\ \A i \in LinesOf(bucket) :
          LET d == left.satisfaction[i].pct * (positive + negative) - positive * 100
          IN 2 * d <= positive + negative /\ -2 * d <= positive + negative

\* C7: for each bucket the satisfaction rate positive / (positive + negative)
\* * 100 is reported if and only if positive + negative > 0 in that bucket,
\* and omitted (no line, not a zero) otherwise, independently of the other
\* bucket.
C7_SatisfactionLines ==
    Live =>
        /\ RateReported("supported", Cardinality(WithThumb(FALSE, "up")),
                        Cardinality(WithThumb(FALSE, "down")))
        /\ RateReported("unsupported", Cardinality(WithThumb(TRUE, "up")),
                        Cardinality(WithThumb(TRUE, "down")))
        /\ \A i \in DOMAIN left.satisfaction :
              left.satisfaction[i].bucket \in {"supported", "unsupported"}

\* Supported: one up, one down (50%); unsupported: one neutral conversation,
\* no line.
C7_Witness ==
    /\ Live
    /\ Cardinality(WithThumb(FALSE, "up")) = 1
    /\ Cardinality(WithThumb(FALSE, "down")) = 1
    /\ Cardinality(InBucket(TRUE)) = 1
    /\ left.satisfaction = << [bucket |-> "supported", pct |-> 50] >>

DtcListsOf(df) == {i \in DOMAIN df : ~df[i].dtcs.null}

\* The number of list positions, over all non-null DTC lists, holding code.
Occurrences(code) ==
    Cardinality({p \in UNION {{i} \X DOMAIN Joined[i].dtcs.items : i \in DtcListsOf(Joined)} :
                   Joined[p[1]].dtcs.items[p[2]] = code})

CodesPresent ==
    UNION {Range(Joined[i].dtcs.items) : i \in DtcListsOf(Joined)}

\* The position at which code is first met when the lists are read in order.
FirstMet(code) == MinSet({i \in DOMAIN AllDtcs(Joined) : AllDtcs(Joined)[i] = code})

\* One row per code present, each with its number of occurrences, by
\* descending count.
DtcTableCounts ==
    /\ {left.dtc_counts[i].code : i \in DOMAIN left.dtc_counts} = CodesPresent
    /\ Len(left.dtc_counts) = Cardinality(CodesPresent)
    /\ \A i \in DOMAIN left.dtc_counts :
          left.dtc_counts[i].count = Occurrences(left.dtc_counts[i].code)
    /\ \A i, j \in DOMAIN left.dtc_counts :
          i < j => left.dtc_counts[i].count >= left.dtc_counts[j].count

\* C8 as stated: the DTC table counts every occurrence of every code over
\* the non-null lists, sorted by descending count with ties kept in
\* first-encountered order.
C8_StableTies ==
    Live =>
        /\ DtcTableCounts
        /\ \A i, j \in DOMAIN left.dtc_counts :
              (i < j /\ left.dtc_counts[i].count = left.dtc_counts[j].count)
                 => FirstMet(left.dtc_counts[i].code) < FirstMet(left.dtc_counts[j].code)

\* C8 as amended: the DTC table has one row per code, counting every
\* occurrence of the code over the non-null lists (a null list contributes
\* nothing), sorted by descending count; the order among equal counts is not
\* fixed.
C8_CountsDescending == Live => DtcTableCounts

\* A null list beside a list that holds one code twice.
C8_Witness ==
    /\ Live
    /\ \E i \in DOMAIN Joined : Joined[i].dtcs.null
    /\ \E i \in DOMAIN left.dtc_counts : left.dtc_counts[i].count = 2
    /\ \E i \in DOMAIN Joined :
          ~Joined[i].dtcs.null /\ Len(Joined[i].dtcs.items) = 2
          /\ Joined[i].dtcs.items[1] = Joined[i].dtcs.items[2]

UserSelected == Live /\ right.selected_user_stats # <<>>

History == right.selected_user_stats[1].login_history

\* The positions of the entries of the selected user's history that parse.
Parsed ==
    IF History.null THEN {} ELSE {i \in DOMAIN History.items : History.items[i].ok}

LoginShown == right.login[1]

\* C9: every entry of the selected user's login history that fails to parse
\* is dropped and the others are kept; "Total logins" is the number of
\* parsed entries, the entries are shown most recent first, "Recent login"
\* is the date of the latest and "First login" the date of the earliest;
\* when no entry parses, "No login history available." is shown.
C9_LoginHistory ==
    UserSelected =>
        IF Parsed = {}
        THEN LoginShown.message = "No login history available."
        ELSE /\ LoginShown.message = "table"
             /\ LoginShown.total_logins = Cardinality(Parsed)
             /\ Len(LoginShown.login_df) = Cardinality(Parsed)
             /\ \A t \in Instants :
                   Cardinality({i \in DOMAIN LoginShown.login_df :
                                   LoginShown.login_df[i]
                                      = [date |-> DateOf(t), time |-> t % TicksPerDay]})
                      = Cardinality({i \in Parsed : History.items[i].at = t})
             /\ \A i, j \in DOMAIN LoginShown.login_df :
                   i < j =>
                      \/ LoginShown.login_df[i].date > LoginShown.login_df[j].date
                      \/ /\ LoginShown.login_df[i].date = LoginShown.login_df[j].date
                         /\ LoginShown.login_df[i].time >= LoginShown.login_df[j].time
             /\ LoginShown.last_login
                   = DateOf(MaxSet({History.items[i].at : i \in Parsed}))
             /\ LoginShown.first_login
                   = DateOf(MinSet({History.items[i].at : i \in Parsed}))

\* An early login, an entry that does not parse, a later login: two logins.
C9_Witness ==
    /\ UserSelected
    /\ ~History.null
    /\ Len(History.items) = 3
    /\ History.items[1].ok /\ ~History.items[2].ok /\ History.items[3].ok
    /\ History.items[1].at < History.items[3].at
    /\ LoginShown.total_logins = 2
    /\ LoginShown.first_login < LoginShown.last_login

\* A selectbox value whose extracted identifier is in no row of the narrowed
\* collection.
UserLookupMiss ==
    right.user_option # NoOption /\ right.selected_user_stats = <<>>

ChatLookupMiss ==
    right.chat_option # NoOption /\ right.selected_chat = <<>>

\* C10: whenever a selection resolves to an identifier absent from the
\* narrowed collection, that branch reports that no data is available and
\* the rest of the page still renders; no selection step ends in a failure
\* of the whole page.
C10_NoHardFailure ==
    /\ pc # "failed"
    /\ (Live /\ (UserLookupMiss \/ ChatLookupMiss)) => right.no_chats

SelectedUser == right.selected_user_stats[1]

\* The joined conversations of the selected user.
ChatsOfSelectedUser ==
    SelectSeq(Joined, LAMBDA r : r.user_id = SelectedUser.user_id)

\* C11: in every drill-down state the chats offered for selection are exactly
\* the joined conversations whose user_id is the selected user's id, ordered
\* by updated_at descending; the selected user is a user record whose
\* company_name is the selected company; the chat shown is a conversation of
\* the selected user.
C11_DrillDownNarrows ==
    UserSelected =>
        /\ SelectedUser \in Range(user_stats_df)
        /\ SelectedUser.company_name = right.company
        /\ right.company = selected_company
        /\ Len(right.user_conversations) = Len(ChatsOfSelectedUser)
        /\ \A i \in DOMAIN Joined :
              CountIn(right.user_conversations, Joined[i])
                 = (IF Joined[i].user_id = SelectedUser.user_id
                    THEN CountIn(Joined, Joined[i]) ELSE 0)
        /\ \A i, j \in DOMAIN right.user_conversations :
              i < j => right.user_conversations[i].updated_at
                          >= right.user_conversations[j].updated_at
        /\ DOMAIN right.chat_options = DOMAIN right.user_conversations
        /\ \A i \in DOMAIN right.chat_options :
              right.chat_options[i] = ChatOption(right.user_conversations[i])
        /\ \A i \in DOMAIN right.selected_chat :
              /\ right.selected_chat[i].user_id = SelectedUser.user_id
              /\ right.selected_chat[i] \in Range(Joined)

\* The selected user of the second company has the later of two
\* conversations shown; the other conversation is of another user.
C11_Witness ==
    /\ UserSelected
    /\ Len(right.companies) = 2
    /\ right.company = right.companies[2]
    /\ Len(Joined) = 2
    /\ Len(right.user_conversations) = 1
    /\ right.selected_chat = << right.user_conversations[1] >>

\* Two conversations of the selected user, the one updated later offered
\* first although it comes second in the collection.
C11_WitnessOrder ==
    /\ UserSelected
    /\ Len(right.user_conversations) = 2
    /\ right.user_conversations[1] = Joined[2]
    /\ right.user_conversations[1].updated_at > right.user_conversations[2].updated_at

\* The user records of the selected company, in the order of their options.
CompanyUsers ==
    SelectSeq(user_stats_df, LAMBDA u : u.company_name = right.company)

\* C12: encoding a selection as a dropdown label and decoding it is a round
\* trip: the user_id extracted from the selected user option is the user_id
\* of the record the option was built from; the chat_id extracted from the
\* selected chat option is the chat_id of the conversation the option was
\* built from, and the chat shown is that conversation, for every title and
\* every identifier.
C12_RoundTrip ==
    Live =>
        /\ \A i \in DOMAIN right.company_users_options :
              right.company_users_options[i] = right.user_option
                 => right.selected_user_id = CompanyUsers[i].user_id
        /\ \A i \in DOMAIN right.chat_options :
              right.chat_options[i] = right.chat_option
                 => /\ right.selected_chat_id = right.user_conversations[i].chat_id
                    /\ right.selected_chat = << right.user_conversations[i] >>

\* The joined conversations that have a workshop_id.
InWorkshop == SelectSeq(Joined, LAMBDA r : r.workshop_id # Null)

NumChats == [i \in DOMAIN left.workshop_stats |-> left.workshop_stats[i].num_chats]

CountsDescending ==
    \A i, j \in DOMAIN NumChats : i < j => NumChats[i] >= NumChats[j]

\* C13 as stated: the per-workshop breakdown accounts for every joined
\* conversation exactly once: the conversation counts of its rows add up to
\* the total conversation count, conversations whose user_id matched no user
\* record included, and the rows are sorted by descending conversation count.
C13_CountsEveryConversation ==
    Live => /\ SumSeq(NumChats) = left.total_chats
            /\ CountsDescending

\* C13, amended: the breakdown has one row per workshop_id that is not null;
\* the conversation count of a row is the number of joined conversations of
\* that workshop, so the counts add up to the number of joined conversations
\* that have a workshop_id (conversations whose user_id matched no user
\* record are in no row); the rows are sorted by descending conversation
\* count.
C13_CountsWorkshopConversations ==
    Live =>
        /\ \A i, j \in DOMAIN left.workshop_stats :
              left.workshop_stats[i].workshop_id = left.workshop_stats[j].workshop_id
                 => i = j
        /\ { left.workshop_stats[i].workshop_id : i \in DOMAIN left.workshop_stats }
              = { InWorkshop[i].workshop_id : i \in DOMAIN InWorkshop }
        /\ \A i \in DOMAIN left.workshop_stats :
              NumChats[i] = Len(SelectSeq(Joined, LAMBDA r :
                                r.workshop_id = left.workshop_stats[i].workshop_id))
        /\ SumSeq(NumChats) = Len(InWorkshop)
        /\ CountsDescending

\* Two workshops with different conversation counts, the larger one being
\* the second met, and a conversation of a user with no record.
C13_Witness ==
    /\ Live
    /\ Len(left.workshop_stats) = 2
    /\ NumChats = << 2, 1 >>
    /\ InWorkshop[1].workshop_id = left.workshop_stats[2].workshop_id
    /\ Len(Joined) > Len(InWorkshop)
    /\ \E i \in DOMAIN Joined : ~HasUser(Joined[i].user_id)

====
